---- MODULE Spec2Model ----
(***************************************************************************)
(* monkeypatch/utils.py: monkey_patch(parent, extension) and its helpers   *)
(* sanity_check, apply_patch, fields, conflicts, non_magic_attrs and       *)
(* is_magic, over a small universe of Python classes.                      *)
(*                                                                         *)
(* A class is its __dict__ (attribute name -> value), its __bases__ tuple  *)
(* and, for a Django model, its _meta.fields.  Attribute names are         *)
(* sequences of one-character strings, so that is_magic is computed on the *)
(* characters as the code computes it.  One monkey_patch call is a         *)
(* sequence of steps (pc), one per statement that can raise or mutate.     *)
(***************************************************************************)
EXTENDS Integers, Sequences, FiniteSets, TLC

VARIABLES
    dict,       \* class -> its __dict__: attribute name -> value
    bases,      \* class -> its __bases__ tuple
    meta,       \* model class -> its _meta.fields (a set of field records)
    pc,         \* position of the current monkey_patch call
    parent,     \* first argument of the current call
    extension,  \* second argument of the current call
    todo,       \* names of fields(source).items() not yet visited by the loop
    exc,        \* the exception the current call raised, or NoExc
    ret,        \* the value the current call returned, or NoRet
    pre         \* bases and meta as they were when the current call began

vars == <<dict, bases, meta, pc, parent, extension, todo, exc, ret, pre>>

----------------------------------------------------------------------------
(* Bounds *)

\* at most this many attributes in the body of a generated class
MaxAttrs == 2

----------------------------------------------------------------------------
(* Attribute names *)

n_first     == <<"f","i","r","s","t">>
n_last      == <<"l","a","s","t">>
n_id        == <<"i","d">>
n_has_beard == <<"h","a","s","_","b","e","a","r","d">>
n_beard     == <<"b","e","a","r","d">>
n_save      == <<"s","a","v","e">>
n_setattr   == <<"_","_","s","e","t","a","t","t","r","_","_">>
n_aaa       == <<"_","_","a","a","a","_","_">>

\* the names of the is_magic doctest, and the shortest dunder-shaped ones
n_alpha     == <<"a","l","p","h","a">>
n_beta      == <<"_","_","b","e","t","a","_","_">>
n_gamma     == <<"_","g","a","m","m","a">>
n_delta     == <<"_","_","d","e","l","t","a">>
n_us1       == <<"_">>
n_us4       == <<"_","_","_","_">>
n_us5       == <<"_","_","_","_","_">>
n_x         == <<"_","_","x","_","_">>

----------------------------------------------------------------------------
(* Values *)

\* a plain attribute (method, property, constant)
Attr == [kind |-> "attr"]

\* a django.db.models.Field instance declared with null=nullable
Field(nullable) == [kind |-> "field", null |-> nullable]

NoExc == [type |-> "None"]
NoRet == "None"
NoClass == "None"

TypeError(msg, cls)          == [type |-> "TypeError", msg |-> msg, cls |-> cls]
AttributeError(confl, cls)   == [type |-> "AttributeError", msg |-> "already used",
                                 names |-> confl, cls |-> cls]

----------------------------------------------------------------------------
(* The classes *)

\* Built-in and framework classes, the models of the doctests, and two
\* plain classes whose bodies are drawn in Init (Beta may inherit Alpha,
\* as in the doctest of fields).
Classes == {"object", "Model", "Human", "ExampleModel", "Alpha", "Beta"}

\* the classes that are created by Django's model metaclass and own a _meta
ModelClasses == {"Human", "ExampleModel"}

\* the attribute declarations a generated class body is drawn from
Decls ==
    { <<n_first,     Field(FALSE)>>,   \* HumanLongNameExtension.first
      <<n_has_beard, Field(TRUE)>>,    \* HumanBeardExtension.has_beard
      <<n_beard,     Field(FALSE)>>,   \* Man.beard: BooleanField()
      <<n_save,      Attr>>,           \* a method Model already has
      <<n_setattr,   Attr>>,           \* a magic method object already has
      <<n_us4,       Attr>>,           \* a plain attribute; dunder-shaped,
                                       \* but too short to be magic
      <<n_aaa,       Field(TRUE)>>,    \* fields under a magic name
      <<n_aaa,       Field(FALSE)>> }

\* the __dict__ a class body made of the declarations S leaves behind
Body(S) == [n \in {d[1] : d \in S} |-> (CHOOSE d \in S : d[1] = n)[2]]

Bodies ==
    { Body(S) : S \in { T \in SUBSET Decls :
                          /\ Cardinality(T) <= MaxAttrs
                          /\ \A d, e \in T : d[1] = e[1] => d = e } }

EmptyBody == [n \in {} |-> Attr]

\* a record of _meta.fields: the field as add_to_class registered it
MetaField(attname, nullable, auto, owner) ==
    [attname |-> attname, null |-> nullable, auto_created |-> auto, owner |-> owner]

----------------------------------------------------------------------------
(* Python's class machinery: method resolution order, issubclass, dir,     *)
(* getattr and assignment to __bases__                                     *)

Range(s) == {s[i] : i \in 1..Len(s)}

InTail(x, s) == \E i \in 2..Len(s) : s[i] = x

MroFail == [ok |-> FALSE, order |-> <<>>]

\* the merge step of the C3 linearization
RECURSIVE merge(_)
merge(seqs) ==
    LET ne == SelectSeq(seqs, LAMBDA s : s # <<>>)
    IN  IF ne = <<>> THEN [ok |-> TRUE, order |-> <<>>]
        ELSE LET cands == {i \in 1..Len(ne) :
                              \A j \in 1..Len(ne) : ~InTail(ne[i][1], ne[j])}
             IN  IF cands = {} THEN MroFail
                 ELSE LET i    == CHOOSE k \in cands : \A j \in cands : k <= j
                          h    == ne[i][1]
                          rest == merge([k \in 1..Len(ne) |->
                                    IF ne[k][1] = h THEN Tail(ne[k]) ELSE ne[k]])
                      IN  [ok |-> rest.ok, order |-> <<h>> \o rest.order]

\* cls.__mro__ under the bases B, or a failure when no consistent order exists
RECURSIVE linearize(_, _)
linearize(B, cls) ==
    LET bs == B[cls]
        ls == [i \in 1..Len(bs) |-> linearize(B, bs[i])]
    IN  IF \E i, j \in 1..Len(bs) : i # j /\ bs[i] = bs[j] THEN MroFail
        ELSE IF \E i \in 1..Len(bs) : ~ls[i].ok THEN MroFail
        ELSE LET m == merge([i \in 1..Len(bs) |-> ls[i].order] \o <<bs>>)
             IN  [ok |-> m.ok, order |-> <<cls>> \o m.order]

mro(B, cls) == linearize(B, cls).order

issubclass(cls, base) == base \in Range(mro(bases, cls))

\* dir(cls): the names in the __dict__ of cls and of all its ancestors
dir(cls) == UNION {DOMAIN dict[k] : k \in Range(mro(bases, cls))}

\* getattr(cls, name): the class in whose __dict__ the lookup finds name,
\* under the bases B
definer(B, cls, name) ==
    LET m == mro(B, cls)
        i == CHOOSE k \in 1..Len(m) :
                 /\ name \in DOMAIN dict[m[k]]
                 /\ \A j \in 1..(k-1) : name \notin DOMAIN dict[m[j]]
    IN  m[i]

hasattr(B, cls, name) == \E k \in Range(mro(B, cls)) : name \in DOMAIN dict[k]

\* whether "cls.__bases__ = new" is accepted: no inheritance cycle and a
\* consistent method resolution order (otherwise Python raises TypeError
\* and leaves __bases__ as it was)
bases_assignable(cls, new) ==
    /\ \A i \in 1..Len(new) : cls \notin Range(mro(bases, new[i]))
    /\ linearize([bases EXCEPT ![cls] = new], cls).ok

----------------------------------------------------------------------------
(* monkeypatch/utils.py: the pure helpers *)

startswith(s, p) == Len(s) >= Len(p) /\ SubSeq(s, 1, Len(p)) = p
endswith(s, p)   == Len(s) >= Len(p) /\ SubSeq(s, Len(s) - Len(p) + 1, Len(s)) = p

MagicLen == 5

\* is_magic with the length test off by one
is_magic_short(name) ==
    /\ startswith(name, <<"_","_">>)
    /\ endswith(name, <<"_","_">>)
    /\ Len(name) >= MagicLen - 1

is_magic(name) ==
    /\ startswith(name, <<"_","_">>)
    /\ endswith(name, <<"_","_">>)
    /\ Len(name) >= MagicLen

non_magic_attrs(obj) == {attr_name \in dir(obj) : ~is_magic(attr_name)}

\* fields(obj): a dict name -> field.  A model is read from _meta.fields,
\* leaving out the auto-created ones; any other class from its own __dict__.
fields(obj) ==
    IF obj \in DOMAIN meta
    THEN LET fs == {f \in meta[obj] : f.auto_created = FALSE}
         IN  [n \in {f.attname : f \in fs} |->
                 LET f == CHOOSE g \in fs : g.attname = n
                 IN  [null |-> f.null, owner |-> f.owner]]
    ELSE [n \in {m \in DOMAIN dict[obj] : dict[obj][m].kind = "field"} |->
             [null |-> dict[obj][n].null, owner |-> obj]]

\* a conflict check that looks at dir() alone, as the older decorator did
conflicts_attrs_only(dest, source) ==
    non_magic_attrs(dest) \cap non_magic_attrs(source)

conflicts(dest, source) ==
    LET d == DOMAIN fields(dest) \cup non_magic_attrs(dest)
        s == DOMAIN fields(source) \cup non_magic_attrs(source)
    IN  d \cap s

----------------------------------------------------------------------------
(* monkeypatch/utils.py: sanity_check, as the exception it raises (NoExc    *)
(* when it returns)                                                        *)

\* the two type checks in the other order
sanity_check_source_first(dest, source) ==
    IF issubclass(source, "Model")
    THEN TypeError("cannot be a Django model", source)
    ELSE IF ~issubclass(dest, "Model")
    THEN TypeError("is not a Django model", dest)
    ELSE LET confl == conflicts(dest, source)
         IN  IF confl # {}
             THEN AttributeError(confl, dest)
             ELSE NoExc

sanity_check(dest, source) ==
    IF ~issubclass(dest, "Model")
    THEN TypeError("is not a Django model", dest)
    ELSE IF issubclass(source, "Model")
    THEN TypeError("cannot be a Django model", source)
    ELSE LET confl == conflicts(dest, source)
         IN  IF confl # {}
             THEN AttributeError(confl, dest)
             ELSE NoExc

\* dest.add_to_class(name, f): the field joins dest._meta.fields under name
add_to_class(dest, name, f) ==
    [meta EXCEPT ![dest] = @ \cup {MetaField(name, f.null, FALSE, f.owner)}]

----------------------------------------------------------------------------
(* The state machine *)

\* the classes monkey_patch is called on
Parents    == {"Human", "Alpha"}
Extensions == {"Alpha", "Beta", "ExampleModel"}

Init ==
    /\ \E a, b \in Bodies :
          dict = [c \in Classes |->
                    CASE c = "object" -> Body({<<n_setattr, Attr>>})
                      [] c = "Model"  -> Body({<<n_save, Attr>>})
                      [] c = "Alpha"  -> a
                      [] c = "Beta"   -> b
                      [] OTHER        -> EmptyBody]
    /\ \E bb \in {"object", "Alpha"} :
          bases = [c \in Classes |->
                     CASE c = "object" -> <<>>
                       [] c \in ModelClasses -> <<"Model">>
                       [] c = "Beta"   -> <<bb>>
                       [] OTHER        -> <<"object">>]
    /\ meta = [c \in ModelClasses |->
                 {MetaField(n_id, FALSE, TRUE, c)} \cup
                 (IF c = "Human"
                  THEN {MetaField(n_first, FALSE, FALSE, c),
                        MetaField(n_last, FALSE, FALSE, c)}
                  ELSE {})]
    /\ pc = "idle"
    /\ parent = NoClass
    /\ extension = NoClass
    /\ todo = {}
    /\ exc = NoExc
    /\ ret = NoRet
    /\ pre = [bases |-> bases, meta |-> meta]

\* monkey_patch(p, e) is called, at import time or after an earlier call has
\* ended, and runs sanity_check(parent, extension)
monkey_patch(p, e) ==
    /\ pc \in {"idle", "returned", "raised"}
    /\ parent' = p
    /\ extension' = e
    /\ pre' = [bases |-> bases, meta |-> meta]
    /\ ret' = NoRet
    /\ todo' = {}
    /\ exc' = sanity_check(p, e)
    /\ pc' = IF exc' = NoExc THEN "apply_patch" ELSE "raised"
    /\ UNCHANGED <<dict, bases, meta>>

\* apply_patch with the extension put in front of the ancestors
apply_patch_prepend ==
    /\ pc = "apply_patch"
    /\ LET new == <<extension>> \o bases[parent]
       IN  IF bases_assignable(parent, new)
           THEN /\ bases' = [bases EXCEPT ![parent] = new]
                /\ todo' = DOMAIN fields(extension)
                /\ pc' = "for"
                /\ exc' = exc
           ELSE /\ exc' = TypeError("bases", parent)
                /\ pc' = "raised"
                /\ UNCHANGED <<bases, todo>>
    /\ UNCHANGED <<dict, meta, parent, extension, ret, pre>>

\* apply_patch: dest.__bases__ += (source, ), then the for statement
\* evaluates fields(source).items()
apply_patch ==
    /\ pc = "apply_patch"
    /\ LET new == bases[parent] \o <<extension>>
       IN  IF bases_assignable(parent, new)
           THEN /\ bases' = [bases EXCEPT ![parent] = new]
                /\ todo' = DOMAIN fields(extension)
                /\ pc' = "for"
                /\ exc' = exc
           ELSE /\ exc' = TypeError("bases", parent)
                /\ pc' = "raised"
                /\ UNCHANGED <<bases, todo>>
    /\ UNCHANGED <<dict, meta, parent, extension, ret, pre>>

\* the loop body without the test of f.null
for_body_no_null_check ==
    /\ pc = "for"
    /\ \E name \in todo :
          LET f == fields(extension)[name]
          IN  /\ meta' = add_to_class(parent, name, f)
              /\ todo' = todo \ {name}
              /\ UNCHANGED <<exc, pc>>
    /\ UNCHANGED <<dict, bases, parent, extension, ret, pre>>

\* one iteration of the loop of apply_patch; a dict is visited in any order
for_body ==
    /\ pc = "for"
    /\ \E name \in todo :
          LET f == fields(extension)[name]
          IN  IF ~f.null
              THEN /\ exc' = TypeError("must be nullable", extension)
                   /\ pc' = "raised"
                   /\ UNCHANGED <<meta, todo>>
              ELSE /\ meta' = add_to_class(parent, name, f)
                   /\ todo' = todo \ {name}
                   /\ UNCHANGED <<exc, pc>>
    /\ UNCHANGED <<dict, bases, parent, extension, ret, pre>>

\* the loop is over: apply_patch returns and monkey_patch returns True
return_True ==
    /\ pc = "for"
    /\ todo = {}
    /\ pc' = "returned"
    /\ ret' = "True"
    /\ UNCHANGED <<dict, bases, meta, parent, extension, todo, exc, pre>>

Next ==
    \/ \E p \in Parents, e \in Extensions : monkey_patch(p, e)
    \/ apply_patch
    \/ for_body
    \/ return_True

Spec == Init /\ [][Next]_vars

----------------------------------------------------------------------------
(* What the claims speak of, stated without the helpers of utils.py *)

RECURSIVE Ancestors(_, _)
\* cls and every class it inherits from, under the bases B
Ancestors(B, cls) == {cls} \cup UNION {Ancestors(B, B[cls][i]) : i \in 1..Len(B[cls])}

IsModelAt(B, cls) == "Model" \in Ancestors(B, cls)

\* __xxx__ : two leading and two trailing underscores around at least one more character
Dunder(n) ==
    /\ Len(n) >= 5
    /\ n[1] = "_" /\ n[2] = "_"
    /\ n[Len(n) - 1] = "_" /\ n[Len(n)] = "_"

AttrNamesAt(B, cls) == UNION {DOMAIN dict[k] : k \in Ancestors(B, cls)}

\* the names of the fields declared in the body of a plain class
DeclaredFields(cls) == {n \in DOMAIN dict[cls] : dict[cls][n].kind = "field"}

\* the names of the schema fields of a model, the auto-created ones left out
SchemaNames(M, cls) == {f.attname : f \in {g \in M[cls] : ~g.auto_created}}

FieldNamesAt(M, cls) ==
    IF cls \in DOMAIN M THEN SchemaNames(M, cls) ELSE DeclaredFields(cls)

\* N(cls): field names and non-magic attribute names
NamesAt(B, M, cls) ==
    FieldNamesAt(M, cls) \cup {n \in AttrNamesAt(B, cls) : ~Dunder(n)}

Called     == pc # "idle"
Terminated == pc \in {"returned", "raised"}

\* nothing the program can mutate differs from what it was when the call began
Untouched == bases = pre.bases /\ meta = pre.meta

----------------------------------------------------------------------------
(* C1 *)

\* C1: a call whose parent is not a Django model, or whose extension is one,
\* raises TypeError; the parent is checked first, so that when both are wrong
\* the error is "is not a Django model" about the parent; and nothing has
\* been mutated.
C1_TypeConstraints ==
    Called =>
        LET pm == IsModelAt(pre.bases, parent)
            em == IsModelAt(pre.bases, extension)
        IN  (~pm \/ em) =>
               /\ pc = "raised"
               /\ exc.type = "TypeError"
               /\ ~pm => (exc.msg = "is not a Django model" /\ exc.cls = parent)
               /\ (pm /\ em) => (exc.msg = "cannot be a Django model"
                                 /\ exc.cls = extension)
               /\ Untouched

\* a call with both arguments wrong has raised, after an earlier patch of Human
C1_Witness ==
    /\ pc = "raised"
    /\ ~IsModelAt(pre.bases, parent)
    /\ IsModelAt(pre.bases, extension)
    /\ Len(bases["Human"]) > 1

----------------------------------------------------------------------------
(* C2 *)

\* C2: for a model parent and a non-model extension that share a field name
\* or a non-magic attribute name, monkey_patch raises AttributeError naming
\* the shared names, and nothing has been mutated.
C2_ConflictRaises ==
    Called =>
        LET shared == NamesAt(pre.bases, pre.meta, parent)
                        \cap NamesAt(pre.bases, pre.meta, extension)
        IN  (/\ IsModelAt(pre.bases, parent)
             /\ ~IsModelAt(pre.bases, extension)
             /\ shared # {})
            => /\ pc = "raised"
               /\ exc.type = "AttributeError"
               /\ exc.names = shared
               /\ exc.cls = parent
               /\ Untouched

\* the doctest's case: the extension declares a field the model already has
C2_Witness ==
    /\ pc = "raised"
    /\ exc.type = "AttributeError"
    /\ parent = "Human"
    /\ n_first \in SchemaNames(pre.meta, parent)
    /\ n_first \in DeclaredFields(extension)

----------------------------------------------------------------------------
(* C3 *)

\* C3: a call that raises nothing returns True, and then the parent's
\* ancestor tuple is the previous one with the extension appended, and the
\* parent's schema field names are the previous ones plus the names of the
\* fields declared on the extension.
C3_Success ==
    pc = "returned" =>
        /\ exc = NoExc
        /\ ret = "True"
        /\ bases[parent] = pre.bases[parent] \o <<extension>>
        /\ SchemaNames(meta, parent)
             = SchemaNames(pre.meta, parent) \cup DeclaredFields(extension)

\* a second successful patch of the same parent, with a field to migrate
C3_Witness ==
    /\ pc = "returned"
    /\ Len(pre.bases[parent]) > 1
    /\ DeclaredFields(extension) # {}

----------------------------------------------------------------------------
(* C4 *)

\* some field declared on cls is non-nullable
NonNullDeclared(cls) ==
    IF cls \in DOMAIN meta
    THEN \E f \in meta[cls] : ~f.auto_created /\ f.owner = cls /\ ~f.null
    ELSE \E n \in DeclaredFields(cls) : ~dict[cls][n].null

\* no model holds a non-nullable field that was declared on a plain class
NoNonNullExtensionField ==
    \A m \in DOMAIN meta : \A f \in meta[m] : f.owner \notin DOMAIN meta => f.null

\* C4 as stated: an extension declaring a non-nullable field makes
\* monkey_patch raise TypeError, and no non-nullable field of an extension
\* is ever in a model's schema.
C4_AsStated ==
    /\ (Terminated /\ NonNullDeclared(extension))
          => (pc = "raised" /\ exc.type = "TypeError")
    /\ NoNonNullExtensionField

\* C4, amended: an extension declaring a non-nullable field makes
\* monkey_patch raise and never return True; the exception is TypeError,
\* except that it is the AttributeError of sanity_check when the parent is a
\* model, the extension is not, and the two share a name; and no
\* non-nullable field of an extension is ever in a model's schema.
C4_NonNullableRejected ==
    /\ (Terminated /\ NonNullDeclared(extension))
          => /\ pc = "raised"
             /\ ret = NoRet
             /\ exc.type =
                  IF /\ IsModelAt(pre.bases, parent)
                     /\ ~IsModelAt(pre.bases, extension)
                     /\ NamesAt(pre.bases, pre.meta, parent)
                          \cap NamesAt(pre.bases, pre.meta, extension) # {}
                  THEN "AttributeError"
                  ELSE "TypeError"
    /\ NoNonNullExtensionField

\* the loop met a non-nullable field after it had migrated a nullable one
C4_Witness ==
    /\ pc = "raised"
    /\ exc.type = "TypeError"
    /\ exc.msg = "must be nullable"
    /\ meta # pre.meta

----------------------------------------------------------------------------
(* C5 *)

\* C5: whenever monkey_patch raises, the parent's ancestor tuple and schema
\* fields are what they were before the call.
C5_NoPartialApplication == pc = "raised" => Untouched

----------------------------------------------------------------------------
(* C6 *)

----------------------------------------------------------------------------
(* C7 *)

\* C7: fields of a plain class holds the fields declared on its ancestors as
\* well as its own: the fields monkey_patch reads off an extension include
\* those of the extension's ancestors, and a successful monkey_patch has
\* copied them to the parent too.
C7_InheritedFields ==
    /\ (Called /\ extension \notin DOMAIN meta) =>
          \A k \in Ancestors(bases, extension) :
              DeclaredFields(k) \subseteq DOMAIN fields(extension)
    /\ pc = "returned" =>
          \A k \in Ancestors(pre.bases, extension) :
              DeclaredFields(k) \subseteq SchemaNames(meta, parent)

----------------------------------------------------------------------------
(* C8 *)

\* C8: the extension is appended to the parent's ancestors only after every
\* field of the extension has been checked and migrated: in no state is the
\* extension already an ancestor added by the current call while a field of
\* it is unvisited or missing from the parent's schema.
C8_SpliceLast ==
    (/\ Called
     /\ extension \in Range(bases[parent])
     /\ extension \notin Range(pre.bases[parent]))
    => /\ todo = {}
       /\ DeclaredFields(extension) \subseteq SchemaNames(meta, parent)

----------------------------------------------------------------------------
(* C9 *)

IsPrefix(s, t) == Len(s) <= Len(t) /\ SubSeq(t, 1, Len(s)) = s

\* C9: whatever a call does, every ancestor and schema field the parent had
\* is still there, and every attribute name the parent had still resolves
\* to the definition it resolved to before.
C9_OnlyAdded ==
    Called =>
        /\ IsPrefix(pre.bases[parent], bases[parent])
        /\ parent \in DOMAIN meta => pre.meta[parent] \subseteq meta[parent]
        /\ \A n \in AttrNamesAt(pre.bases, parent) :
              /\ hasattr(bases, parent, n)
              /\ definer(bases, parent, n) = definer(pre.bases, parent, n)

----------------------------------------------------------------------------
(* C10 *)

\* the plain classes among the ancestors listed in cls.__bases__
AppliedAt(cls) == {i \in 1..Len(bases[cls]) : bases[cls][i] \notin {"object", "Model"}}

\* C10: the extensions in a model's ancestor tuple have pairwise disjoint
\* sets of field and non-magic attribute names, none with a non-magic
\* attribute is there twice, and applying once more an extension with a
\* non-magic attribute, or one sharing a non-magic name with an applied
\* one, raises AttributeError and changes nothing.
C10_DisjointExtensions ==
    /\ \A m \in DOMAIN meta : \A i, j \in AppliedAt(m) :
          i < j =>
             /\ NamesAt(bases, meta, bases[m][i])
                  \cap NamesAt(bases, meta, bases[m][j]) = {}
             /\ bases[m][i] # bases[m][j]
    /\ (/\ Terminated
        /\ parent \in DOMAIN meta
        /\ ~IsModelAt(pre.bases, extension)
        /\ \E i \in 1..Len(pre.bases[parent]) :
              /\ pre.bases[parent][i] \notin {"object", "Model"}
              /\ \E n \in AttrNamesAt(pre.bases, pre.bases[parent][i])
                            \cap AttrNamesAt(pre.bases, extension) : ~Dunder(n))
       => (pc = "raised" /\ exc.type = "AttributeError" /\ Untouched)

====
